---- MODULE Spec2Model ----
(***************************************************************************)
(* Model of package s3cache (s3cache.go): an httpcache.Cache that keeps    *)
(* its entries as objects in an Amazon S3 bucket.                          *)
(*                                                                         *)
(* Cache.Get, Cache.Set and Cache.Delete are modelled statement by         *)
(* statement.  The storage client (s3util.Open / Create / Delete and the   *)
(* handles they return) is the environment: every call of it either fails  *)
(* or succeeds, chosen nondeterministically, and acts on `store`, the      *)
(* bucket's objects by URL.                                                *)
(*                                                                         *)
(* `hist` is a history variable: the calls that have returned, in the      *)
(* order of their return, with the values handed back to the caller.       *)
(***************************************************************************)
EXTENDS Integers, Sequences, FiniteSets

VARIABLES BucketURL, store, pc, loc, openHandles, hist

vars == <<BucketURL, store, pc, loc, openHandles, hist>>

-----------------------------------------------------------------------------
(* Bounds *)

\* longest payload, in bytes
MaxLen == 1

\* number of calls of Get/Set/Delete in one behaviour
MaxOps == 3

\* backend calls that fail in one behaviour (a missing object is no failure)
MaxFaults == 1

\* byte values of the payloads
Bytes == {0}

\* logical cache keys
Keys == {"a", "b"}

\* callers of the cache; the sequential specification runs caller 1 only
Procs == {1, 2}

\* bucket URLs without a trailing separator, as sequences of characters
Bases == {<<"m">>}

Payloads == UNION {[1..n -> Bytes] : n \in 0..MaxLen}

-----------------------------------------------------------------------------
(* Pure functions *)

\* strings.HasSuffix(s, "/")
HasSuffixSlash(s) == Len(s) > 0 /\ s[Len(s)] = "/"

\* hex.EncodeToString(md5(key)): the MD5 digests of the keys of Keys
cacheKeyToObjectKey(key) ==
    CASE key = "a" -> <<"0","c","c","1","7","5","b","9","c","0","f","1","b","6","a","8",
                        "3","1","c","3","9","9","e","2","6","9","7","7","2","6","6","1">>
      [] key = "b" -> <<"9","2","e","b","5","f","f","e","e","6","a","e","2","f","e","c",
                        "3","a","d","7","1","c","7","7","7","5","3","1","5","7","8","f">>

\* a url that always inserts the separator
urlAlwaysSlash(bucketURL, key) == bucketURL \o <<"/">> \o cacheKeyToObjectKey(key)

\* a url that leaves the object key out
urlNoKey(bucketURL, key) ==
    IF HasSuffixSlash(bucketURL) THEN bucketURL ELSE bucketURL \o <<"/">>

\* Cache.url
url(bucketURL, key) ==
    IF HasSuffixSlash(bucketURL)
    THEN bucketURL \o cacheKeyToObjectKey(key)
    ELSE bucketURL \o <<"/">> \o cacheKeyToObjectKey(key)

-----------------------------------------------------------------------------
(* The bucket *)

Exists(s, u) == u \in DOMAIN s

\* a PUT that appends to the object already there
PutAppend(s, u, data) ==
    [x \in DOMAIN s \cup {u} |->
        IF x = u THEN (IF u \in DOMAIN s THEN s[u] \o data ELSE data) ELSE s[x]]

\* the upload completed by w.Close(): creates or replaces the object at u
PutObject(s, u, data) ==
    [x \in DOMAIN s \cup {u} |-> IF x = u THEN data ELSE s[x]]

\* the effect of s3util.Delete: no object at u afterwards
DeleteObject(s, u) == [x \in DOMAIN s \ {u} |-> s[x]]

Prefix(data, n) == SubSeq(data, 1, n)

-----------------------------------------------------------------------------
(* State *)

NoLoc == [key |-> "", u |-> <<>>, arg |-> <<>>, data |-> <<>>, err |-> FALSE,
          fail |-> "none", began |-> 0]

\* calls begun so far
Started == Len(hist) + Cardinality({p \in Procs : pc[p] # "idle"})

\* backend failures so far
Faults ==
    Cardinality({i \in 1..Len(hist) : hist[i].fail \notin {"none", "absent"}})
    + Cardinality({p \in Procs : loc[p].fail # "none"})

CanFail == Faults < MaxFaults

Entry(op, key, arg, ret, found, fail, began) ==
    [op |-> op, key |-> key, arg |-> arg, ret |-> ret, found |-> found,
     fail |-> fail, began |-> began]

\* New(bucketURL): the bucket is fresh, no call is in progress
Init ==
    /\ BucketURL \in Bases \cup {b \o <<"/">> : b \in Bases}
    /\ store = <<>>
    /\ pc = [p \in Procs |-> "idle"]
    /\ loc = [p \in Procs |-> NoLoc]
    /\ openHandles = 0
    /\ hist = <<>>

-----------------------------------------------------------------------------
(* Cache.Get *)

\* a Get that reports a failed open as a hit
GetOpenFailedFound == [data |-> <<>>, ok |-> TRUE]

\* return []byte{}, false
GetOpenFailed == [data |-> <<>>, ok |-> FALSE]

\* return resp, err == nil
GetResult(resp, err) == [data |-> resp, ok |-> ~err]

\* a reader closed only after a clean read
CloseAfterCleanRead(n, err) == IF err THEN n ELSE n - 1

\* defer rdr.Close() of Get
GetDeferredClose(n, err) == n - 1

\* rdr, err := s3util.Open(c.url(key), &c.Config), and the return on err != nil
GetOpen(p, k) ==
    /\ pc[p] = "idle"
    /\ Started < MaxOps
    /\ LET u == url(BucketURL, k) IN
       \/ /\ \E cause \in (IF Exists(store, u) THEN {} ELSE {"absent"})
                            \cup (IF CanFail THEN {"open"} ELSE {}) :
                hist' = Append(hist, Entry("Get", k, <<>>, GetOpenFailed.data,
                                           GetOpenFailed.ok, cause, Len(hist)))
          /\ UNCHANGED <<BucketURL, store, pc, loc, openHandles>>
       \/ /\ Exists(store, u)
          /\ loc' = [loc EXCEPT ![p] = [NoLoc EXCEPT !.key = k, !.u = u,
                                        !.data = store[u], !.began = Len(hist)]]
          /\ pc' = [pc EXCEPT ![p] = "get_read"]
          /\ openHandles' = openHandles + 1
          /\ UNCHANGED <<BucketURL, store, hist>>

\* resp, err = ioutil.ReadAll(rdr): the whole body, or the bytes read before
\* the error together with the error
GetReadAll(p) ==
    /\ pc[p] = "get_read"
    /\ \/ loc' = [loc EXCEPT ![p].err = FALSE]
       \/ \E n \in 0..Len(loc[p].data) :
            /\ CanFail
            /\ loc' = [loc EXCEPT ![p].data = Prefix(loc[p].data, n),
                               ![p].err = TRUE, ![p].fail = "read"]
    /\ pc' = [pc EXCEPT ![p] = "get_ret"]
    /\ UNCHANGED <<BucketURL, store, openHandles, hist>>

\* return resp, err == nil, with the deferred rdr.Close()
GetReturn(p) ==
    /\ pc[p] = "get_ret"
    /\ LET r == GetResult(loc[p].data, loc[p].err) IN
       hist' = Append(hist, Entry("Get", loc[p].key, <<>>, r.data, r.ok,
                                  loc[p].fail, loc[p].began))
    /\ openHandles' = GetDeferredClose(openHandles, loc[p].err)
    /\ pc' = [pc EXCEPT ![p] = "idle"]
    /\ loc' = [loc EXCEPT ![p] = NoLoc]
    /\ UNCHANGED <<BucketURL, store>>

-----------------------------------------------------------------------------
(* Cache.Set *)

\* a Write that hands the writer nothing
WriteNothing(resp) == <<>>

\* w.Write(resp): the bytes the writer holds after a successful Write
Written(resp) == resp

\* defer w.Close() of Set
SetDeferredClose(n, err) == n - 1

\* a Set that does not look at the error of Create and goes on to Write
SetCreateIgnoreErr(p, k, resp) ==
    /\ pc[p] = "idle"
    /\ Started < MaxOps
    /\ \/ /\ CanFail
          /\ loc' = [loc EXCEPT ![p] = [NoLoc EXCEPT !.key = k, !.u = url(BucketURL, k),
                                        !.arg = resp, !.err = TRUE, !.fail = "create",
                                        !.began = Len(hist)]]
          /\ pc' = [pc EXCEPT ![p] = "set_write"]
          /\ UNCHANGED <<BucketURL, store, openHandles, hist>>
       \/ /\ loc' = [loc EXCEPT ![p] = [NoLoc EXCEPT !.key = k, !.u = url(BucketURL, k),
                                        !.arg = resp, !.began = Len(hist)]]
          /\ pc' = [pc EXCEPT ![p] = "set_write"]
          /\ openHandles' = openHandles + 1
          /\ UNCHANGED <<BucketURL, store, hist>>

\* w, err := s3util.Create(c.url(key), nil, &c.Config), and the return on err != nil
SetCreate(p, k, resp) ==
    /\ pc[p] = "idle"
    /\ Started < MaxOps
    /\ \/ /\ CanFail
          /\ hist' = Append(hist, Entry("Set", k, resp, <<>>, FALSE, "create", Len(hist)))
          /\ UNCHANGED <<BucketURL, store, pc, loc, openHandles>>
       \/ /\ loc' = [loc EXCEPT ![p] = [NoLoc EXCEPT !.key = k, !.u = url(BucketURL, k),
                                        !.arg = resp, !.began = Len(hist)]]
          /\ pc' = [pc EXCEPT ![p] = "set_write"]
          /\ openHandles' = openHandles + 1
          /\ UNCHANGED <<BucketURL, store, hist>>

\* w.Write(resp); its error is not looked at
SetWrite(p) ==
    /\ pc[p] = "set_write"
    /\ \/ loc' = [loc EXCEPT ![p].data = Written(loc[p].arg)]
       \/ /\ CanFail
          /\ loc' = [loc EXCEPT ![p].err = TRUE, ![p].fail = "write"]
    /\ pc' = [pc EXCEPT ![p] = "set_ret"]
    /\ UNCHANGED <<BucketURL, store, openHandles, hist>>

\* a Set that returns without closing the writer: the upload is never completed
SetReturnNoClose(p) ==
    /\ pc[p] = "set_ret"
    /\ hist' = Append(hist, Entry("Set", loc[p].key, loc[p].arg, <<>>, FALSE,
                                  loc[p].fail, loc[p].began))
    /\ pc' = [pc EXCEPT ![p] = "idle"]
    /\ loc' = [loc EXCEPT ![p] = NoLoc]
    /\ UNCHANGED <<BucketURL, store, openHandles>>

\* the deferred w.Close() at the return of Set: completes the upload unless
\* the Write or the Close itself failed
SetReturn(p) ==
    /\ pc[p] = "set_ret"
    /\ \/ /\ ~loc[p].err
          /\ store' = PutObject(store, loc[p].u, loc[p].data)
          /\ hist' = Append(hist, Entry("Set", loc[p].key, loc[p].arg, <<>>, FALSE,
                                        "none", loc[p].began))
       \/ /\ loc[p].err \/ CanFail
          /\ store' = store
          /\ hist' = Append(hist, Entry("Set", loc[p].key, loc[p].arg, <<>>, FALSE,
                                        IF loc[p].err THEN loc[p].fail ELSE "close",
                                        loc[p].began))
    /\ openHandles' = SetDeferredClose(openHandles, loc[p].err)
    /\ pc' = [pc EXCEPT ![p] = "idle"]
    /\ loc' = [loc EXCEPT ![p] = NoLoc]
    /\ UNCHANGED BucketURL

-----------------------------------------------------------------------------
(* Cache.Delete *)

\* a Delete that names the object by the logical key instead of c.url(key)
DeleteCallRawKey(p, k) ==
    /\ pc[p] = "idle"
    /\ Started < MaxOps
    /\ LET u == BucketURL \o <<"/", k>> IN
       \/ /\ CanFail
          /\ hist' = Append(hist, Entry("Delete", k, <<>>, <<>>, FALSE, "delete", Len(hist)))
          /\ UNCHANGED <<BucketURL, store, pc, loc, openHandles>>
       \/ /\ store' = DeleteObject(store, u)
          /\ loc' = [loc EXCEPT ![p] = [NoLoc EXCEPT !.key = k, !.u = u,
                                        !.began = Len(hist)]]
          /\ pc' = [pc EXCEPT ![p] = "delete_ret"]
          /\ openHandles' = openHandles + 1
          /\ UNCHANGED <<BucketURL, hist>>

\* rdr, err := s3util.Delete(c.url(key), &c.Config), and the return on err != nil
DeleteCall(p, k) ==
    /\ pc[p] = "idle"
    /\ Started < MaxOps
    /\ LET u == url(BucketURL, k) IN
       \/ /\ CanFail
          /\ hist' = Append(hist, Entry("Delete", k, <<>>, <<>>, FALSE, "delete", Len(hist)))
          /\ UNCHANGED <<BucketURL, store, pc, loc, openHandles>>
       \/ /\ store' = DeleteObject(store, u)
          /\ loc' = [loc EXCEPT ![p] = [NoLoc EXCEPT !.key = k, !.u = u,
                                        !.began = Len(hist)]]
          /\ pc' = [pc EXCEPT ![p] = "delete_ret"]
          /\ openHandles' = openHandles + 1
          /\ UNCHANGED <<BucketURL, hist>>

\* the deferred rdr.Close() at the return of Delete
DeleteReturn(p) ==
    /\ pc[p] = "delete_ret"
    /\ hist' = Append(hist, Entry("Delete", loc[p].key, <<>>, <<>>, FALSE, "none",
                                  loc[p].began))
    /\ openHandles' = openHandles - 1
    /\ pc' = [pc EXCEPT ![p] = "idle"]
    /\ loc' = [loc EXCEPT ![p] = NoLoc]
    /\ UNCHANGED <<BucketURL, store>>

-----------------------------------------------------------------------------
(* Specifications *)

Step(p) ==
    \/ \E k \in Keys : GetOpen(p, k)
    \/ GetReadAll(p)
    \/ GetReturn(p)
    \/ \E k \in Keys, resp \in Payloads : SetCreate(p, k, resp)
    \/ SetWrite(p)
    \/ SetReturn(p)
    \/ \E k \in Keys : DeleteCall(p, k)
    \/ DeleteReturn(p)

\* one caller: every call returns before the next begins
Next == Step(1)

Spec == Init /\ [][Next]_vars

\* two callers on one Cache, their calls interleaved statement by statement
NextConc == \E p \in Procs : Step(p)

SpecConc == Init /\ [][NextConc]_vars

TypeOK ==
    /\ pc \in [Procs -> {"idle", "get_read", "get_ret", "set_write", "set_ret", "delete_ret"}]
    /\ openHandles \in Nat
    /\ Len(hist) <= MaxOps

-----------------------------------------------------------------------------
(* Properties *)

N == Len(hist)

IsGet(e) == e.op = "Get"
IsSet(e) == e.op = "Set"
IsDelete(e) == e.op = "Delete"

\* every backend call of the call succeeded
Clean(e) == e.fail = "none"

\* no backend call of the call failed for another cause than a missing object
NoFault(e) == e.fail \in {"none", "absent"}

Miss(e) == e.ret = <<>> /\ ~e.found

\* the object of logical key k: {} when there is none
ObjAt(k) ==
    LET u == url(BucketURL, k) IN IF Exists(store, u) THEN {store[u]} ELSE {}

\* C1: one caller: a Set(k, p) whose backend calls succeed, directly followed
\* by a Get(k) whose backend calls succeed, makes the Get return (p, true)
RoundTrip ==
    \A i \in 1..(N - 1) :
        (/\ IsSet(hist[i]) /\ Clean(hist[i])
         /\ IsGet(hist[i + 1]) /\ Clean(hist[i + 1])
         /\ hist[i + 1].key = hist[i].key)
        => (hist[i + 1].ret = hist[i].arg /\ hist[i + 1].found)

RoundTripWitness ==
    \E i \in 1..(N - 1) :
        /\ IsSet(hist[i]) /\ Clean(hist[i]) /\ hist[i].arg # <<>>
        /\ IsGet(hist[i + 1]) /\ Clean(hist[i + 1])
        /\ hist[i + 1].key = hist[i].key

\* C2: a Get whose open succeeded and whose read failed returns the empty
\* payload and found = false
ReadErrorGivesEmpty ==
    \A i \in 1..N :
        (IsGet(hist[i]) /\ hist[i].fail = "read") => Miss(hist[i])

\* C3: one caller: after Set(k, p1), Set(k, p2) with succeeding backend calls
\* a Get(k) returns (p2, true), and once a successful Set(k, p) has returned
\* the object of k is p
Overwrite ==
    /\ \A i \in 1..(N - 2) :
        (/\ IsSet(hist[i]) /\ Clean(hist[i])
         /\ IsSet(hist[i + 1]) /\ Clean(hist[i + 1])
         /\ IsGet(hist[i + 2]) /\ Clean(hist[i + 2])
         /\ hist[i + 1].key = hist[i].key /\ hist[i + 2].key = hist[i].key)
        => (hist[i + 2].ret = hist[i + 1].arg /\ hist[i + 2].found)
    /\ (pc[1] = "idle" /\ N >= 1 /\ IsSet(hist[N]) /\ Clean(hist[N]))
        => ObjAt(hist[N].key) = {hist[N].arg}

OverwriteWitness ==
    /\ N >= 3
    /\ IsSet(hist[N - 2]) /\ Clean(hist[N - 2])
    /\ IsSet(hist[N - 1]) /\ Clean(hist[N - 1])
    /\ IsGet(hist[N]) /\ Clean(hist[N])
    /\ hist[N - 1].key = hist[N - 2].key /\ hist[N].key = hist[N - 2].key
    /\ hist[N - 1].arg # hist[N - 2].arg

\* C4: one caller: after Set(k, p), Delete(k) with succeeding backend calls a
\* Get(k) that meets no other backend failure returns (empty, false)
DeleteRemoves ==
    \A i \in 1..(N - 2) :
        (/\ IsSet(hist[i]) /\ Clean(hist[i])
         /\ IsDelete(hist[i + 1]) /\ Clean(hist[i + 1])
         /\ IsGet(hist[i + 2]) /\ NoFault(hist[i + 2])
         /\ hist[i + 1].key = hist[i].key /\ hist[i + 2].key = hist[i].key)
        => Miss(hist[i + 2])

DeleteRemovesWitness ==
    /\ N >= 3
    /\ IsSet(hist[N - 2]) /\ Clean(hist[N - 2]) /\ hist[N - 2].arg # <<>>
    /\ IsDelete(hist[N - 1]) /\ Clean(hist[N - 1])
    /\ IsGet(hist[N]) /\ NoFault(hist[N])
    /\ hist[N - 1].key = hist[N - 2].key /\ hist[N].key = hist[N - 2].key

\* C5: a Get(k) that finds no object, or that no Set(k, _) came before,
\* returns (empty, false)
MissSemantics ==
    \A i \in 1..N :
        (/\ IsGet(hist[i])
         /\ \/ hist[i].fail = "absent"
            \/ \A j \in 1..(i - 1) : ~(IsSet(hist[j]) /\ hist[j].key = hist[i].key))
        => Miss(hist[i])

MissSemanticsWitness ==
    \E i \in 2..N :
        /\ IsGet(hist[i]) /\ hist[i].fail = "absent"
        /\ IsSet(hist[i - 1]) /\ Clean(hist[i - 1]) /\ hist[i - 1].key # hist[i].key

\* C6: a call whose s3util.Open / Create / Delete fails has returned by then:
\* no call goes on after the failure, and the Get has returned (empty, false)
FailureDegrades ==
    /\ \A p \in Procs : loc[p].fail \notin {"open", "absent", "create", "delete"}
    /\ \A p \in Procs : pc[p] = "idle" => loc[p] = NoLoc
    /\ \A i \in 1..N :
        hist[i].fail \in {"open", "absent", "create", "delete"}
        => /\ hist[i].op = (CASE hist[i].fail = "create" -> "Set"
                              [] hist[i].fail = "delete" -> "Delete"
                              [] OTHER -> "Get")
           /\ IsGet(hist[i]) => Miss(hist[i])

FailureDegradesWitness ==
    /\ pc[1] = "idle"
    /\ \E i \in 1..N : hist[i].fail \in {"open", "create", "delete"}
    /\ N >= 2 /\ IsDelete(hist[1])

\* with one trailing separator taken off
NoSlash(b) == IF HasSuffixSlash(b) THEN SubSeq(b, 1, Len(b) - 1) ELSE b

\* C7: a bucket URL with a trailing "/" and the same URL without it give the
\* same location base + "/" + digest, and the objects are stored there
SeparatorHandling ==
    LET b == NoSlash(BucketURL) IN
    /\ \A k \in Keys :
        /\ url(b, k) = b \o <<"/">> \o cacheKeyToObjectKey(k)
        /\ url(b \o <<"/">>, k) = url(b, k)
        /\ url(BucketURL, k) = url(b, k)
    /\ DOMAIN store \subseteq {b \o <<"/">> \o cacheKeyToObjectKey(k) : k \in Keys}
    /\ \A p \in Procs :
        pc[p] # "idle" => loc[p].u = b \o <<"/">> \o cacheKeyToObjectKey(loc[p].key)

SeparatorHandlingWitness ==
    /\ HasSuffixSlash(BucketURL)
    /\ ~HasSuffixSlash(NoSlash(BucketURL))
    /\ \E k \in Keys : ObjAt(k) # {}

\* C8: two callers: when two Sets of k that overlapped both returned without a
\* backend failure and a Get(k) that began after both returns with no other
\* call touching k meanwhile, the Get returns the payload of the Set that
\* committed last, and true
LastWriterWins ==
    \A i \in 1..(N - 2) : \A j \in (i + 1)..(N - 1) :
        (/\ IsSet(hist[i]) /\ Clean(hist[i])
         /\ IsSet(hist[j]) /\ Clean(hist[j])
         /\ hist[j].key = hist[i].key
         /\ hist[j].began < i
         /\ IsGet(hist[N]) /\ NoFault(hist[N])
         /\ hist[N].key = hist[i].key
         /\ hist[N].began >= j
         /\ \A m \in (i + 1)..(N - 1) : m # j => hist[m].key # hist[i].key
         /\ \A p \in Procs : pc[p] # "idle" => loc[p].key # hist[i].key)
        => (hist[N].found /\ hist[N].ret = hist[j].arg)

LastWriterWinsWitness ==
    /\ N = 3
    /\ IsSet(hist[1]) /\ Clean(hist[1])
    /\ IsSet(hist[2]) /\ Clean(hist[2])
    /\ hist[2].key = hist[1].key
    /\ hist[2].arg # hist[1].arg
    /\ hist[2].began = 0
    /\ IsGet(hist[3]) /\ Clean(hist[3])
    /\ hist[3].key = hist[1].key
    /\ hist[3].began = 2

\* C9: every handle that is open belongs to a call in progress: when a call
\* has returned, the handle it obtained is closed
HandleRelease ==
    /\ openHandles >= 0
    /\ openHandles <= Cardinality({p \in Procs : pc[p] # "idle"})

HandleReleaseWitness ==
    /\ \A p \in Procs : pc[p] = "idle"
    /\ \E i, j, m \in 1..N :
        /\ hist[i].fail = "read"
        /\ IsSet(hist[j]) /\ Clean(hist[j])
        /\ IsDelete(hist[m]) /\ Clean(hist[m])

\* a step of a call on key k by caller p
StepOn(p, k) ==
    \/ pc'[p] # pc[p] /\ (loc[p].key = k \/ loc'[p].key = k)
    \/ pc'[p] = pc[p] /\ hist' # hist /\ hist'[Len(hist')].key = k

\* C10: one caller: no step of a call on k1 changes the object of a key k2
\* with another digest, and two Gets of k2 with only calls on other keys
\* between them return the same
KeyIsolation ==
    /\ [][\A k1, k2 \in Keys :
            (cacheKeyToObjectKey(k1) # cacheKeyToObjectKey(k2) /\ StepOn(1, k1))
            => ObjAt(k2)' = ObjAt(k2)]_vars
    /\ [](\A i \in 1..N : \A j \in (i + 1)..N :
            (/\ IsGet(hist[i]) /\ NoFault(hist[i])
             /\ IsGet(hist[j]) /\ NoFault(hist[j])
             /\ hist[j].key = hist[i].key
             /\ \A m \in (i + 1)..(j - 1) :
                    cacheKeyToObjectKey(hist[m].key) # cacheKeyToObjectKey(hist[i].key))
            => (hist[j].ret = hist[i].ret /\ hist[j].found = hist[i].found))

KeyIsolationWitness ==
    /\ N >= 3
    /\ IsSet(hist[N - 2]) /\ Clean(hist[N - 2])
    /\ hist[N - 1].op \in {"Set", "Delete"} /\ Clean(hist[N - 1])
    /\ hist[N - 1].key # hist[N - 2].key
    /\ IsGet(hist[N]) /\ Clean(hist[N])
    /\ hist[N].key = hist[N - 2].key
    /\ hist[N].ret = hist[N - 2].arg

====
